---- MODULE Spec2Model ----
(***************************************************************************)
(* Model of scripts/check_docs_terminology.py: the documentation           *)
(* terminology scanner.  Text is a sequence of characters, one string per   *)
(* character; characters that cannot be written in a TLA+ string are named  *)
(* ("<LF>", "<U+FF08>", ...).                                                *)
(***************************************************************************)
EXTENDS Integers, Sequences, FiniteSets, TLC

VARIABLES
    ROOT,        \* parts of the repository root (Path(__file__).resolve().parents[1])
    tree,        \* the *.md files under ROOT: relative path parts -> file text
    pc,          \* "idle", "rglob" (between files), "lines" (inside a file), "done"
    order,       \* the absolute paths in the order ROOT.rglob("*.md") yields them
    fi,          \* number of paths of order already consumed by the for loop
    rel,         \* md.relative_to(ROOT) of the file being read
    lines,       \* text.splitlines() of the file being read
    line_no,     \* number of lines of that file already matched
    violations,  \* the list scan_markdown accumulates
    stdout,      \* what main printed, as the sequence of written pieces
    status,      \* what main returned (NoStatus while it runs)
    prev         \* stdout and status of the previous invocation (NoRun if none)

vars == <<ROOT, tree, pc, order, fi, rel, lines, line_no, violations, stdout, status, prev>>

(***************************************************************************)
(* Bounds of the model.                                                     *)
(***************************************************************************)
MaxFiles == 2    \* *.md files in a tree
MaxLines == 2    \* pieces of text joined by a separator in one file

(***************************************************************************)
(* Characters.                                                              *)
(***************************************************************************)
LF == "<LF>"
CR == "<CR>"
VT == "<VT>"
FF == "<FF>"
FileSep == "<FS>"
GroupSep == "<GS>"
RecordSep == "<RS>"
NEL == "<NEL>"
LineSep == "<U+2028>"
ParaSep == "<U+2029>"
TAB == "<TAB>"

\* The characters str.splitlines() breaks a line at.
LineBoundaries == {LF, CR, VT, FF, FileSep, GroupSep, RecordSep, NEL, LineSep, ParaSep}

\* The characters str.strip() removes (str.isspace()).
Whitespace == LineBoundaries \cup {" ", TAB, "<US>", "<NBSP>"}

UpperCase ==
    <<"A", "B", "C", "D", "E", "F", "G", "H", "I", "J", "K", "L", "M",
      "N", "O", "P", "Q", "R", "S", "T", "U", "V", "W", "X", "Y", "Z">>
LowerCase ==
    <<"a", "b", "c", "d", "e", "f", "g", "h", "i", "j", "k", "l", "m",
      "n", "o", "p", "q", "r", "s", "t", "u", "v", "w", "x", "y", "z">>
Digits == {"0", "1", "2", "3", "4", "5", "6", "7", "8", "9"}
Range(s) == {s[i] : i \in DOMAIN s}

\* \w of a str pattern: alphanumeric (CJK ideographs are letters) or underscore.
WordChars == Range(UpperCase) \cup Range(LowerCase) \cup Digits \cup {"_", "<U+517C>", "<U+5BB9>"}

\* str.lower() of one character.
LowerChar(c) ==
    LET I == {i \in DOMAIN UpperCase : UpperCase[i] = c}
    IN  IF I = {} THEN c ELSE LowerCase[CHOOSE i \in I : TRUE]

\* str.upper() of one character (used to build inputs only).
UpperChar(c) ==
    LET I == {i \in DOMAIN LowerCase : LowerCase[i] = c}
    IN  IF I = {} THEN c ELSE UpperCase[CHOOSE i \in I : TRUE]

\* line.lower()
Lower(s) == [i \in DOMAIN s |-> LowerChar(s[i])]
Upper(s) == [i \in DOMAIN s |-> UpperChar(s[i])]

(***************************************************************************)
(* Words: the literals of the rule table, the allow-phrases, and pieces of  *)
(* the input lines.                                                         *)
(***************************************************************************)
lit_sing_box == <<"s", "i", "n", "g", "-", "b", "o", "x">>
lit_singbox == <<"s", "i", "n", "g", "b", "o", "x">>
lit_libbox == <<"l", "i", "b", "b", "o", "x">>
lit_CoreBridge == <<"C", "o", "r", "e", "B", "r", "i", "d", "g", "e">>
lit_RemoteClient == <<"R", "e", "m", "o", "t", "e", "C", "l", "i", "e", "n", "t">>
lit_IpcService == <<"I", "p", "c", "S", "e", "r", "v", "i", "c", "e">>
lit_IpcHub == <<"I", "p", "c", "H", "u", "b">>
lit_kunbox_import ==
    <<"k", "u", "n", "b", "o", "x", ":", "/", "/", "i", "m", "p", "o", "r", "t", "?", "u", "r",
    "l", "=">>
lit_kunbox_anchor ==
    <<"#", "k", "u", "n", "b", "o", "x", "-", "f", "o", "r", "-", "a", "n", "d", "r", "o", "i",
    "d">>
lit_SingBoxService == <<"S", "i", "n", "g", "B", "o", "x", "S", "e", "r", "v", "i", "c", "e">>
lit_SingBoxIpcService ==
    <<"S", "i", "n", "g", "B", "o", "x", "I", "p", "c", "S", "e", "r", "v", "i", "c", "e">>
lit_SingBoxIpcHub == <<"S", "i", "n", "g", "B", "o", "x", "I", "p", "c", "H", "u", "b">>
lit_SingBoxRemote == <<"S", "i", "n", "g", "B", "o", "x", "R", "e", "m", "o", "t", "e">>
phrase_compatible_en ==
    <<"s", "i", "n", "g", "-", "b", "o", "x", " ", "j", "s", "o", "n", " ", "(", "c", "o", "m",
    "p", "a", "t", "i", "b", "l", "e", ")">>
phrase_compatible_zh ==
    <<"s", "i", "n", "g", "-", "b", "o", "x", " ", "j", "s", "o", "n", "<U+FF08>", "<U+517C>",
    "<U+5BB9>", "<U+FF09>">>
phrase_compatible_with ==
    <<"c", "o", "m", "p", "a", "t", "i", "b", "l", "e", " ", "w", "i", "t", "h", " ", "s", "i",
    "n", "g", "-", "b", "o", "x", " ", "j", "s", "o", "n">>
w_We_use == <<"W", "e", " ", "u", "s", "e", " ">>
w_for_routing == <<" ", "f", "o", "r", " ", "r", "o", "u", "t", "i", "n", "g", ".">>
w_This_project_is ==
    <<"T", "h", "i", "s", " ", "p", "r", "o", "j", "e", "c", "t", " ", "i", "s", " ">>
w_parsing == <<" ", "p", "a", "r", "s", "i", "n", "g", ".">>
w_See == <<"S", "e", "e", " ">>
w_kt == <<".", "k", "t", " ", "f", "o", "r", " ", "d", "e", "t", "a", "i", "l", "s", ".">>
w_corebridge ==
    <<"c", "o", "r", "e", "b", "r", "i", "d", "g", "e", " ", "i", "s", " ", "u", "n", "r", "e",
    "l", "a", "t", "e", "d">>
w_Visit == <<"V", "i", "s", "i", "t", " ">>
w_https == <<"h", "t", "t", "p", "s", ":", "/", "/", "x">>
w_JSON_compatible ==
    <<"s", "i", "n", "g", "-", "b", "o", "x", " ", "J", "S", "O", "N", " ", "(", "c", "o", "m",
    "p", "a", "t", "i", "b", "l", "e", ")">>
w_JSON_zh ==
    <<"S", "i", "n", "g", "-", "B", "o", "x", " ", "J", "S", "O", "N", "<U+FF08>", "<U+517C>",
    "<U+5BB9>", "<U+FF09>">>
w_and == <<" ", "a", "n", "d", " ">>
w_uses == <<" ", "u", "s", "e", "s", " ">>
w_ok == <<"o", "k">>
w_My == <<"M", "y">>

(***************************************************************************)
(* Module constants of the program.                                         *)
(***************************************************************************)
SKIP_DIR_NAMES == {".git", ".gradle", ".idea", ".vscode", "target", "build", "node_modules"}

\* A compiled pattern: its source text (pattern.pattern), the literal it
\* matches, whether the literal stands between two \b, and re.IGNORECASE.
Rule(pattern, lit, wb, icase, suggestion) ==
    [pattern |-> pattern, lit |-> lit, wb |-> wb, icase |-> icase, suggestion |-> suggestion]

FORBIDDEN_PATTERNS ==
    << Rule("\\bsing-box\\b", lit_sing_box, TRUE, TRUE, "Use OpenWorldCore terminology"),
       Rule("\\bsingbox\\b", lit_singbox, TRUE, TRUE, "Use OpenWorldCore terminology"),
       Rule("\\blibbox\\b", lit_libbox, TRUE, TRUE, "Use OpenWorldCore terminology"),
       Rule("\\bCoreBridge\\b", lit_CoreBridge, TRUE, FALSE,
            "Use real symbol names (e.g., SingBoxCore/Libbox bridge)"),
       Rule("\\bRemoteClient\\b", lit_RemoteClient, TRUE, FALSE, "Use OpenWorldRemote"),
       Rule("\\bIpcService\\b", lit_IpcService, TRUE, FALSE, "Use OpenWorldIpcService"),
       Rule("\\bIpcHub\\b", lit_IpcHub, TRUE, FALSE, "Use OpenWorldIpcHub"),
       Rule("kunbox://import\\?url=", lit_kunbox_import, FALSE, TRUE,
            "Use kunbox://install-config?url="),
       Rule("#kunbox-for-android", lit_kunbox_anchor, FALSE, TRUE, "Use #openworld-for-android"),
       Rule("\\bSingBoxService\\b", lit_SingBoxService, TRUE, FALSE, "Use OpenWorldService"),
       Rule("\\bSingBoxIpcService\\b", lit_SingBoxIpcService, TRUE, FALSE,
            "Use OpenWorldIpcService"),
       Rule("\\bSingBoxIpcHub\\b", lit_SingBoxIpcHub, TRUE, FALSE, "Use OpenWorldIpcHub"),
       Rule("\\bSingBoxRemote\\b", lit_SingBoxRemote, TRUE, FALSE, "Use OpenWorldRemote") >>

(***************************************************************************)
(* Pure functions.                                                          *)
(***************************************************************************)
\* needle in hay (substring test of str)
Contains(hay, needle) ==
    \E i \in 1..(Len(hay) - Len(needle) + 1) :
        \A j \in 1..Len(needle) : hay[i + j - 1] = needle[j]

\* Whether the character at index i of line exists and is a \w character.
IsWordAt(line, i) == i >= 1 /\ i <= Len(line) /\ line[i] \in WordChars

\* \b before index pos of line: exactly one of the two neighbours is a \w character.
WordBoundary(line, pos) == IsWordAt(line, pos - 1) # IsWordAt(line, pos)

\* One pattern character against one line character.
CharMatches(p, pc_, c) == IF p.icase THEN LowerChar(pc_) = LowerChar(c) ELSE pc_ = c

\* The literal of p occurs in line starting at index i.
LiteralAt(p, line, i) ==
    /\ i + Len(p.lit) - 1 <= Len(line)
    /\ \A j \in 1..Len(p.lit) : CharMatches(p, p.lit[j], line[i + j - 1])

\* MatchAt with the two \b left out of the pattern.
MatchAt_WithoutBoundary(p, line, i) == LiteralAt(p, line, i)

\* The pattern p matches line starting at index i.
MatchAt(p, line, i) ==
    /\ LiteralAt(p, line, i)
    /\ p.wb => WordBoundary(line, i) /\ WordBoundary(line, i + Len(p.lit))

\* pattern.search(line)
Search(p, line) == \E i \in 1..Len(line) : MatchAt(p, line, i)

\* should_skip without the test for the agent-metadata directory.
should_skip_SkipSetOnly(path) == Range(path) \cap SKIP_DIR_NAMES # {}

\* should_skip(path), path given by its parts
should_skip(path) ==
    LET parts == Range(path)
    IN  IF parts \cap SKIP_DIR_NAMES # {} THEN TRUE ELSE ".agent" \in parts

\* md.relative_to(ROOT)
relative_to(path, root) == SubSeq(path, Len(root) + 1, Len(path))

\* str(rel): the parts joined by "/"
RECURSIVE PathStr(_)
PathStr(path) ==
    IF Len(path) = 0 THEN "."
    ELSE IF Len(path) = 1 THEN path[1]
    ELSE path[1] \o "/" \o PathStr(Tail(path))

\* The lines of text.splitlines() from index i on, each as the span of text it
\* covers: a line ends before the next line boundary, and "\r\n" is one boundary.
RECURSIVE SplitSpans(_, _)
SplitSpans(text, i) ==
    IF i > Len(text) THEN <<>>
    ELSE LET ends == {j \in i..Len(text) : text[j] \in LineBoundaries}
             eol == IF ends = {} THEN Len(text) + 1
                    ELSE CHOOSE j \in ends : \A k \in ends : j <= k
             next == IF eol <= Len(text) /\ text[eol] = CR
                        /\ eol + 1 <= Len(text) /\ text[eol + 1] = LF
                     THEN eol + 2 ELSE eol + 1
         IN  <<[start |-> i, stop |-> eol - 1]>> \o SplitSpans(text, next)

\* text.splitlines()
splitlines(text) ==
    LET spans == SplitSpans(text, 1)
    IN  [k \in DOMAIN spans |-> SubSeq(text, spans[k].start, spans[k].stop)]

\* line.strip()
strip(line) ==
    LET keep == {i \in DOMAIN line : line[i] \notin Whitespace}
    IN  IF keep = {} THEN <<>>
        ELSE SubSeq(line, CHOOSE i \in keep : \A k \in keep : i <= k,
                          CHOOSE i \in keep : \A k \in keep : i >= k)

\* allow_singbox_compat of a line
allow_singbox_compat(line) ==
    LET lower_line == Lower(line)
    IN  \/ Contains(lower_line, phrase_compatible_en)
        \/ Contains(lower_line, phrase_compatible_zh)
        \/ Contains(lower_line, phrase_compatible_with)

\* One entry of violations.  The program keeps the formatted string; the model
\* keeps its fields and formats them when main prints.
Violation(r, n, p, line) ==
    [rel |-> r, line_no |-> n, pattern |-> p.pattern, suggestion |-> p.suggestion,
     line |-> strip(line)]

\* The f-string of one violation, as the pieces of text it is made of.
Format(v) ==
    <<PathStr(v.rel), ":", ToString(v.line_no), ": forbidden term '", v.pattern, "' -> ",
      v.suggestion, LF, "    ">> \o v.line

\* The inner loop with break in place of continue: the exception ends the loop.
RECURSIVE ScanRules_ExceptionEndsLoop(_, _, _, _, _)
ScanRules_ExceptionEndsLoop(r, n, line, allow, i) ==
    IF i > Len(FORBIDDEN_PATTERNS) THEN <<>>
    ELSE LET p == FORBIDDEN_PATTERNS[i]
         IN  IF allow /\ p.pattern = "\\bsing-box\\b"
             THEN <<>>
             ELSE IF Search(p, line)
                  THEN <<Violation(r, n, p, line)>>
                       \o ScanRules_ExceptionEndsLoop(r, n, line, allow, i + 1)
                  ELSE ScanRules_ExceptionEndsLoop(r, n, line, allow, i + 1)

\* The inner loop with a break after the first hit.
RECURSIVE ScanRules_StopAtFirstHit(_, _, _, _, _)
ScanRules_StopAtFirstHit(r, n, line, allow, i) ==
    IF i > Len(FORBIDDEN_PATTERNS) THEN <<>>
    ELSE LET p == FORBIDDEN_PATTERNS[i]
         IN  IF allow /\ p.pattern = "\\bsing-box\\b"
             THEN ScanRules_StopAtFirstHit(r, n, line, allow, i + 1)
             ELSE IF Search(p, line)
                  THEN <<Violation(r, n, p, line)>>
                  ELSE ScanRules_StopAtFirstHit(r, n, line, allow, i + 1)

\* The inner loop recording one violation per match (finditer) and testing the
\* exception per match: a match outside the allow-phrases is recorded.
RECURSIVE ScanRules_PerOccurrence(_, _, _, _, _)
ScanRules_PerOccurrence(r, n, line, allow, i) ==
    IF i > Len(FORBIDDEN_PATTERNS) THEN <<>>
    ELSE LET p == FORBIDDEN_PATTERNS[i]
             hits == Cardinality({k \in DOMAIN line : MatchAt(p, line, k)})
         IN  IF allow /\ p.pattern = "\\bsing-box\\b"
             THEN [j \in 1..(hits - 1) |-> Violation(r, n, p, line)]
                  \o ScanRules_PerOccurrence(r, n, line, allow, i + 1)
             ELSE [j \in 1..hits |-> Violation(r, n, p, line)]
                  \o ScanRules_PerOccurrence(r, n, line, allow, i + 1)

\* The inner loop of scan_markdown over FORBIDDEN_PATTERNS from rule i on.
RECURSIVE ScanRules(_, _, _, _, _)
ScanRules(r, n, line, allow, i) ==
    IF i > Len(FORBIDDEN_PATTERNS) THEN <<>>
    ELSE LET p == FORBIDDEN_PATTERNS[i]
         IN  IF allow /\ p.pattern = "\\bsing-box\\b"
             THEN ScanRules(r, n, line, allow, i + 1)
             ELSE IF Search(p, line)
                  THEN <<Violation(r, n, p, line)>> \o ScanRules(r, n, line, allow, i + 1)
                  ELSE ScanRules(r, n, line, allow, i + 1)

\* The body of the loop with the rule table walked from its last rule to its first.
ScanLineOf_TableReversed(r, n, line) ==
    LET vs == ScanRules(r, n, line, allow_singbox_compat(line), 1)
    IN  [k \in 1..Len(vs) |-> vs[Len(vs) + 1 - k]]

\* The body of the loop over the lines of a file, for one line.
ScanLineOf(r, n, line) == ScanRules(r, n, line, allow_singbox_compat(line), 1)

\* sep.join(parts)
RECURSIVE Join(_, _)
Join(sep, parts) ==
    IF Len(parts) = 0 THEN <<>>
    ELSE IF Len(parts) = 1 THEN parts[1]
    ELSE parts[1] \o sep \o Join(sep, Tail(parts))

\* print(s): s and the line end print adds
WriteLine(s) == s \o <<LF>>

\* main with the reports joined by "\n\n".
MainOutput_BlankLineBetweenReports(vs) ==
    IF Len(vs) > 0
    THEN WriteLine(<<"Documentation terminology check failed.", LF>>)
         \o WriteLine(Join(<<LF, LF>>, [i \in DOMAIN vs |-> Format(vs[i])]))
    ELSE WriteLine(<<"Documentation terminology check passed.">>)

\* main returning the number of violations as the status.
MainStatus_ViolationCount(vs) == Len(vs)

\* What main prints for a list of violations, and what it returns.
MainOutput(vs) ==
    IF Len(vs) > 0
    THEN WriteLine(<<"Documentation terminology check failed.", LF>>)
         \o WriteLine(Join(<<LF>>, [i \in DOMAIN vs |-> Format(vs[i])]))
    ELSE WriteLine(<<"Documentation terminology check passed.">>)

MainStatus(vs) == IF Len(vs) > 0 THEN 1 ELSE 0

(***************************************************************************)
(* Inputs: repository roots, file paths, lines and file texts.              *)
(***************************************************************************)
Roots == { <<"/", "home", "dev", "openworld">>, <<"/", "srv", "build", "openworld">> }

Paths ==
    { <<"README.md">>, <<"docs", "guide.md">>, <<"docs", "Build", "notes.md">>,
      <<"app", "build", "out.md">>, <<".agent", "rules.md">> }

\* The concrete scenarios of the specification, and lines with several terms.
ScenarioLines ==
    { w_We_use \o lit_sing_box \o w_for_routing,
      w_This_project_is \o phrase_compatible_with \o w_parsing,
      w_See \o lit_CoreBridge \o w_kt,
      w_corebridge,
      w_Visit \o lit_kunbox_import \o w_https,
      w_JSON_compatible,
      w_JSON_zh,
      w_JSON_compatible \o w_uses \o lit_libbox,
      w_JSON_compatible \o w_and \o lit_sing_box,
      lit_sing_box \o w_and \o w_JSON_zh \o w_and \o lit_singbox,
      lit_singbox \o w_and \o lit_singbox,
      lit_singbox \o w_and \o lit_libbox,
      <<" ", TAB>> \o lit_sing_box \o <<" ">> \o lit_sing_box \o <<" ">>,
      w_My \o lit_IpcHub \o w_and \o lit_SingBoxIpcHub,
      lit_RemoteClient \o <<" ">> \o lit_IpcService \o <<" ">> \o lit_IpcHub,
      lit_sing_box \o <<" ">> \o lit_singbox \o <<" ">> \o lit_libbox \o <<" ">>
        \o lit_CoreBridge \o <<" ">> \o lit_RemoteClient \o <<" ">> \o lit_IpcService
        \o <<" ">> \o lit_IpcHub \o <<" ">> \o lit_kunbox_import \o <<" ">>
        \o lit_kunbox_anchor \o <<" ">> \o lit_SingBoxService \o <<" ">>
        \o lit_SingBoxIpcService \o <<" ">> \o lit_SingBoxIpcHub \o <<" ">>
        \o lit_SingBoxRemote,
      w_ok,
      <<>> }

\* What may stand directly before or after a token.
Affixes == { <<>>, <<"x">>, <<"_">>, <<"9">>, <<"<U+517C>">>, <<" ">>, <<"-">>, <<".">> }

\* Every rule's literal, as written and in upper case, between two affixes.
TokenLines ==
    { a \o t \o b :
        t \in {FORBIDDEN_PATTERNS[i].lit : i \in DOMAIN FORBIDDEN_PATTERNS}
              \cup {Upper(FORBIDDEN_PATTERNS[i].lit) : i \in DOMAIN FORBIDDEN_PATTERNS},
        a \in Affixes, b \in Affixes }

\* Line boundaries between the pieces of a file, and the pieces.
Separators == {<<c>> : c \in LineBoundaries} \cup {<<CR, LF>>}
Pieces == {lit_singbox, w_ok, <<>>}

\* The texts made of n pieces.
RECURSIVE JoinedTexts(_)
JoinedTexts(n) ==
    IF n = 1 THEN Pieces
    ELSE {t \o s \o p : t \in JoinedTexts(n - 1), s \in Separators, p \in Pieces}

\* Files of one line, and files of up to MaxLines pieces.
LineTexts ==
    ScenarioLines \cup TokenLines \cup UNION {JoinedTexts(n) : n \in 2..MaxLines}

\* The texts of the files of trees with several files.
TreeTexts ==
    { lit_singbox \o w_and \o lit_libbox \o <<LF>> \o w_See \o lit_CoreBridge \o w_kt \o <<LF>>,
      w_We_use \o lit_sing_box \o w_for_routing,
      w_ok \o <<LF>> }

\* The trees of at most MaxFiles files with texts of TreeTexts.
Trees ==
    UNION { [S -> TreeTexts] : S \in {S \in SUBSET Paths : Cardinality(S) <= MaxFiles} }

\* The orders in which a set of paths can be enumerated.
Orders(S) ==
    { o \in [1..Cardinality(S) -> S] : \A i, j \in 1..Cardinality(S) : i # j => o[i] # o[j] }

NoStatus == -1
NoRun == [stdout |-> <<>>, status |-> NoStatus]

(***************************************************************************)
(* The state machine.                                                       *)
(***************************************************************************)
\* A tree of several small files under any root, or README.md with one of
\* LineTexts next to a file of the agent-metadata directory.
Init ==
    /\ \/ /\ ROOT \in Roots
          /\ tree \in Trees
       \/ /\ ROOT = <<"/", "home", "dev", "openworld">>
          /\ \E t \in LineTexts :
                tree = [p \in {<<"README.md">>, <<".agent", "rules.md">>} |->
                            IF p = <<"README.md">> THEN t ELSE lit_singbox]
    /\ pc = "idle"
    /\ order = <<>>
    /\ fi = 0
    /\ rel = <<>>
    /\ lines = <<>>
    /\ line_no = 0
    /\ violations = <<>>
    /\ stdout = <<>>
    /\ status = NoStatus
    /\ prev = NoRun

\* sys.exit(main()): main calls scan_markdown, whose rglob enumerates the *.md
\* files under ROOT in an order the file system decides.
Invoke ==
    /\ pc \in {"idle", "done"}
    /\ prev' = IF pc = "done" THEN [stdout |-> stdout, status |-> status] ELSE NoRun
    /\ order' \in Orders({ROOT \o p : p \in DOMAIN tree})
    /\ fi' = 0
    /\ violations' = <<>>
    /\ stdout' = <<>>
    /\ status' = NoStatus
    /\ pc' = "rglob"
    /\ UNCHANGED <<ROOT, tree, rel, lines, line_no>>

\* The next md of the loop is skipped: continue.
SkipFile ==
    /\ pc = "rglob"
    /\ fi < Len(order)
    /\ should_skip(order[fi + 1])
    /\ fi' = fi + 1
    /\ UNCHANGED <<ROOT, tree, pc, order, rel, lines, line_no, violations, stdout, status, prev>>

\* The next md of the loop is read and split into lines.
ReadFile ==
    /\ pc = "rglob"
    /\ fi < Len(order)
    /\ ~should_skip(order[fi + 1])
    /\ fi' = fi + 1
    /\ rel' = relative_to(order[fi + 1], ROOT)
    /\ lines' = splitlines(tree[rel'])
    /\ line_no' = 0
    /\ pc' = "lines"
    /\ UNCHANGED <<ROOT, tree, order, violations, stdout, status, prev>>

\* One iteration of the loop over the lines: every rule is tried on the line.
ScanLine ==
    /\ pc = "lines"
    /\ line_no < Len(lines)
    /\ line_no' = line_no + 1
    /\ violations' = violations \o ScanLineOf(rel, line_no', lines[line_no'])
    /\ UNCHANGED <<ROOT, tree, pc, order, fi, rel, lines, stdout, status, prev>>

\* The lines of the file are exhausted: back to the loop over the files.
EndFile ==
    /\ pc = "lines"
    /\ line_no = Len(lines)
    /\ pc' = "rglob"
    /\ UNCHANGED <<ROOT, tree, order, fi, rel, lines, line_no, violations, stdout, status, prev>>

\* scan_markdown returns; main prints the report and returns the status.
Report ==
    /\ pc = "rglob"
    /\ fi = Len(order)
    /\ stdout' = MainOutput(violations)
    /\ status' = MainStatus(violations)
    /\ pc' = "done"
    /\ UNCHANGED <<ROOT, tree, order, fi, rel, lines, line_no, violations, prev>>

Next == Invoke \/ SkipFile \/ ReadFile \/ ScanLine \/ EndFile \/ Report

Spec == Init /\ [][Next]_vars

(***************************************************************************)
(* Vocabulary of the properties.                                            *)
(***************************************************************************)
\* The directory names that exclude a file: the skip-set and the agent-metadata name.
ExcludedNames ==
    {".git", ".gradle", ".idea", ".vscode", "target", "build", "node_modules", ".agent"}

\* The path, as enumerated, has a segment equal to an excluded name.
HasExcludedSegment(path) == \E k \in DOMAIN path : path[k] \in ExcludedNames

\* The files of the tree with no excluded segment, and the lines of a file.
ScannedFiles == {p \in DOMAIN tree : ~HasExcludedSegment(ROOT \o p)}
FileLines(p) == splitlines(tree[p])

\* The lower-case form of the line contains one of the three allow-phrases.
HasAllowPhrase(line) ==
    \E ph \in {phrase_compatible_en, phrase_compatible_zh, phrase_compatible_with} :
        Contains(Lower(line), ph)

BrandRule == "\\bsing-box\\b"
RuleIds == DOMAIN FORBIDDEN_PATTERNS
RuleIndex(pattern) == CHOOSE i \in RuleIds : FORBIDDEN_PATTERNS[i].pattern = pattern

\* The positions of violations recorded for line n of file p, and for one rule of it.
RecordedAt(p, n) ==
    {k \in DOMAIN violations : violations[k].rel = p /\ violations[k].line_no = n}
RecordedFor(p, n, i) ==
    {k \in RecordedAt(p, n) : violations[k].pattern = FORBIDDEN_PATTERNS[i].pattern}

\* The rules whose pattern matches the raw line.
MatchingRules(line) == {i \in RuleIds : Search(FORBIDDEN_PATTERNS[i], line)}

\* The output as lines: each "<LF>" ends a line.
RECURSIVE OutputLines(_)
OutputLines(out) ==
    LET ends == {j \in DOMAIN out : out[j] = LF}
    IN  IF ends = {} THEN (IF out = <<>> THEN <<>> ELSE <<out>>)
        ELSE LET e == CHOOSE j \in ends : \A k \in ends : j <= k
             IN  <<SubSeq(out, 1, e - 1)>> \o OutputLines(SubSeq(out, e + 1, Len(out)))

HeaderLine == <<"Documentation terminology check failed.">>
SuccessLine == <<"Documentation terminology check passed.">>

\* The two lines of one violation report.
ReportLines(v) ==
    << <<PathStr(v.rel), ":", ToString(v.line_no), ": forbidden term '", v.pattern, "' -> ",
         v.suggestion>>,
       <<"    ">> \o v.line >>

\* The lines of the reports of vs from index i on, with `gap` between two reports.
RECURSIVE ReportsFrom(_, _, _)
ReportsFrom(vs, i, gap) ==
    IF i > Len(vs) THEN <<>>
    ELSE IF i = Len(vs) THEN ReportLines(vs[i])
    ELSE ReportLines(vs[i]) \o gap \o ReportsFrom(vs, i + 1, gap)

(***************************************************************************)
(* C1  Skip-set enforcement.  After a scan, a file whose path has a segment *)
(* equal to a skip-set name or to ".agent" has no violation recorded,       *)
(* whatever its content; every other file is scanned in full: each line of  *)
(* it has a violation for each rule that matches it and is not suppressed.  *)
(***************************************************************************)
C1_SkipSetEnforcement ==
    pc = "done" =>
        \A p \in DOMAIN tree :
            IF HasExcludedSegment(ROOT \o p)
            THEN \A k \in DOMAIN violations : violations[k].rel # p
            ELSE \A n \in DOMAIN FileLines(p) :
                    \A i \in MatchingRules(FileLines(p)[n]) :
                        (HasAllowPhrase(FileLines(p)[n]) /\ FORBIDDEN_PATTERNS[i].pattern = BrandRule)
                        \/ RecordedFor(p, n, i) # {}

\* A finished scan of a tree with an excluded file that holds a forbidden term
\* and a scanned file with a violation.
C1_Witness ==
    /\ pc = "done"
    /\ \E p \in DOMAIN tree :
          /\ HasExcludedSegment(ROOT \o p)
          /\ \E n \in DOMAIN FileLines(p) : MatchingRules(FileLines(p)[n]) # {}
    /\ \E q \in ScannedFiles : \E k \in DOMAIN violations : violations[k].rel = q

(***************************************************************************)
(* C2  Compatibility exception scope.  On a scanned line whose lower-case   *)
(* form contains an allow-phrase, the rule \bsing-box\b is skipped and each *)
(* of the other 12 rules records a violation iff its pattern matches the    *)
(* raw line; on a line without an allow-phrase every rule does.             *)
(***************************************************************************)
C2_ExceptionScope ==
    pc = "done" =>
        \A p \in ScannedFiles : \A n \in DOMAIN FileLines(p) :
            LET line == FileLines(p)[n]
                matching == MatchingRules(line)
                allowed == HasAllowPhrase(line)
                recorded == {RuleIndex(violations[k].pattern) : k \in RecordedAt(p, n)}
            IN  \A i \in RuleIds :
                    IF allowed /\ FORBIDDEN_PATTERNS[i].pattern = BrandRule
                    THEN i \notin recorded
                    ELSE i \in recorded <=> i \in matching

\* A scanned line with an allow-phrase on which another rule recorded a
\* violation and the brand-name rule, though it matches, recorded none.
C2_Witness ==
    /\ pc = "done"
    /\ \E p \in ScannedFiles : \E n \in DOMAIN FileLines(p) :
          /\ HasAllowPhrase(FileLines(p)[n])
          /\ RuleIndex(BrandRule) \in MatchingRules(FileLines(p)[n])
          /\ RecordedFor(p, n, RuleIndex(BrandRule)) = {}
          /\ \E i \in RuleIds : RecordedFor(p, n, i) # {}

(***************************************************************************)
(* C3  Exit contract.  A finished run returned 0 and printed exactly the    *)
(* success line iff no violation was recorded, and returned 1 and printed   *)
(* the failure header iff at least one was; no other status is returned.    *)
(***************************************************************************)
C3_ExitContract ==
    pc = "done" =>
        /\ status \in {0, 1}
        /\ (status = 0 /\ OutputLines(stdout) = <<SuccessLine>>) <=> (Len(violations) = 0)
        /\ (status = 1 /\ Len(stdout) > 0 /\ OutputLines(stdout)[1] = HeaderLine)
               <=> (Len(violations) > 0)

\* A run that scanned a file, found nothing and returned 0.
C3_Witness ==
    /\ pc = "done"
    /\ status = 0
    /\ ScannedFiles # {}
    /\ OutputLines(stdout) = <<SuccessLine>>

(***************************************************************************)
(* C4  Failure output layout, as claimed.  When there are violations the    *)
(* output is the header line, a blank line, then every violation report,    *)
(* with a blank line between consecutive reports.                           *)
(***************************************************************************)
C4_ReportsJoinedByBlankLines ==
    (pc = "done" /\ Len(violations) > 0) =>
        OutputLines(stdout) = <<HeaderLine, <<>>>> \o ReportsFrom(violations, 1, << <<>> >>)

(***************************************************************************)
(* C4  Failure output layout, as amended.  When there are violations the    *)
(* output is the header line, a blank line, then every violation report in  *)
(* the order recorded, each report's "path:line:" line directly following   *)
(* the previous report's indented line (one line break, no blank line).     *)
(***************************************************************************)
C4_FailureLayout ==
    (pc = "done" /\ Len(violations) > 0) =>
        OutputLines(stdout) = <<HeaderLine, <<>>>> \o ReportsFrom(violations, 1, <<>>)

\* A failed run that printed at least two reports.
C4_Witness ==
    /\ pc = "done"
    /\ Len(violations) >= 2
    /\ Len(OutputLines(stdout)) = 2 + 2 * Len(violations)

(***************************************************************************)
(* C5  Violation ordering.  The recorded violations are in the order of     *)
(* (position of the file in the traversal, line number, position of the     *)
(* rule in the table): of two violations the one with the smaller triple    *)
(* comes first, so the violations of one file are never interleaved with    *)
(* those of another.                                                        *)
(***************************************************************************)
FileIndex(v) == CHOOSE k \in DOMAIN order : order[k] = ROOT \o v.rel

KeyLess(a, b) ==
    \/ FileIndex(a) < FileIndex(b)
    \/ FileIndex(a) = FileIndex(b) /\ a.line_no < b.line_no
    \/ FileIndex(a) = FileIndex(b) /\ a.line_no = b.line_no
         /\ RuleIndex(a.pattern) < RuleIndex(b.pattern)

C5_ViolationOrdering ==
    \A i, j \in DOMAIN violations : i < j => KeyLess(violations[i], violations[j])

\* Violations of two files, of two lines of one file and of two rules on one line.
C5_Witness ==
    \E i, j, k \in DOMAIN violations :
        /\ violations[i].rel # violations[j].rel
        /\ violations[j].rel = violations[k].rel
        /\ violations[j].line_no # violations[k].line_no
        /\ \E l \in DOMAIN violations :
              /\ l # k
              /\ violations[l].rel = violations[k].rel
              /\ violations[l].line_no = violations[k].line_no

(***************************************************************************)
(* C6  Determinism.  A second run on the unchanged tree prints the same     *)
(* output and returns the same status as the run before it: the output does *)
(* not depend on the order in which rglob yields the files.                 *)
(***************************************************************************)
C6_OutputIndependentOfTraversalOrder ==
    (pc = "done" /\ prev # NoRun) => (stdout = prev.stdout /\ status = prev.status)

(***************************************************************************)
(* C7  Multi-match per line, no short-circuit.  A scanned line on which k   *)
(* rules match, none of them suppressed by the compatibility exception,     *)
(* has exactly k violations recorded, all with that line's number.          *)
(***************************************************************************)
C7_MultiMatch ==
    pc = "done" =>
        \A p \in ScannedFiles : \A n \in DOMAIN FileLines(p) :
            LET line == FileLines(p)[n]
                matching == MatchingRules(line)
            IN  ~(HasAllowPhrase(line) /\ RuleIndex(BrandRule) \in matching)
                    => Cardinality(RecordedAt(p, n)) = Cardinality(matching)

\* A scanned line with two distinct forbidden terms and two violations.
C7_Witness ==
    /\ pc = "done"
    /\ \E p \in ScannedFiles : \E n \in DOMAIN FileLines(p) :
          /\ ~HasAllowPhrase(FileLines(p)[n])
          /\ Cardinality(MatchingRules(FileLines(p)[n])) >= 2
          /\ Cardinality(RecordedAt(p, n)) = Cardinality(MatchingRules(FileLines(p)[n]))

(***************************************************************************)
(* C8  Whole-word boundary.  For every whole-word rule that is tried on a   *)
(* scanned line: if every occurrence of its token in the line is embedded   *)
(* in a larger identifier (a letter, digit or underscore directly before or *)
(* after it), the rule records no violation for the line; if some           *)
(* occurrence is standalone (line start or end or a non-word character on   *)
(* each side), it records one.                                              *)
(***************************************************************************)
Occurrences(rule, line) == {k \in DOMAIN line : LiteralAt(rule, line, k)}

IdentifierChar(c) ==
    c \in Range(UpperCase) \cup Range(LowerCase) \cup Digits \cup {"_", "<U+517C>", "<U+5BB9>"}

Embedded(rule, line, k) ==
    \/ k > 1 /\ IdentifierChar(line[k - 1])
    \/ k + Len(rule.lit) <= Len(line) /\ IdentifierChar(line[k + Len(rule.lit)])

LineEndsBefore(text, pos) ==
    Cardinality({j \in 1..(pos - 1) :
                    \/ text[j] = LF
                    \/ text[j] = CR /\ ~(j + 1 <= Len(text) /\ text[j + 1] = LF)})

C9_LineNumbering ==
    \A k \in DOMAIN violations :
        LET v == violations[k]
            text == tree[v.rel]
            at == SplitSpans(text, 1)[v.line_no].start
        IN  v.line_no = 1 + LineEndsBefore(text, at)

(***************************************************************************)
(* C10  Line-wide suppression.  On a scanned line with an allow-phrase no   *)
(* violation of the rule \bsing-box\b is recorded, wherever "sing-box"      *)
(* occurs on the line; and on every scanned line each rule records at most  *)
(* one violation however often its pattern occurs, so at most 13 per line.  *)
(***************************************************************************)
C10_LineWideSuppression ==
    pc = "done" =>
        \A p \in ScannedFiles : \A n \in DOMAIN FileLines(p) :
            /\ HasAllowPhrase(FileLines(p)[n]) =>
                   \A k \in RecordedAt(p, n) : violations[k].pattern # BrandRule
            /\ \A i \in RuleIds : Cardinality(RecordedFor(p, n, i)) <= 1
            /\ Cardinality(RecordedAt(p, n)) <= 13

\* The positions at which the pattern of a rule matches the line.
MatchPositions(rule, line) == {k \in DOMAIN line : MatchAt(rule, line, k)}

\* A scanned line with an allow-phrase and two matches of \bsing-box\b, one of
\* them outside the phrase, and none recorded; its other rule, matching once
\* or more, recorded once.
C10_Witness ==
    /\ pc = "done"
    /\ \E p \in ScannedFiles : \E n \in DOMAIN FileLines(p) :
          LET line == FileLines(p)[n]
          IN  /\ HasAllowPhrase(line)
              /\ Cardinality(MatchPositions(FORBIDDEN_PATTERNS[RuleIndex(BrandRule)], line)) >= 2
              /\ RecordedFor(p, n, RuleIndex(BrandRule)) = {}
              /\ \E i \in RuleIds : Cardinality(RecordedFor(p, n, i)) = 1
====
